---- MODULE Spec2Model ----
(***************************************************************************)
(* Model of iprPy's static structure refinement (quick_a_Cij / calc_cij in *)
(* calc_refine_structure_static.py), of the dislocationmonopole input     *)
(* interpreter and of the files ptd_energy handles                         *)
(* (calc_point_defect_formation_static.py).                                *)
(*                                                                         *)
(* Lengths are integers counted in units of half the default absolute      *)
(* tolerance of numpy.allclose (1e-8), so that ATOL is 2; the cells the    *)
(* evaluator proposes have even dimensions, which keeps the average of two *)
(* of them an integer, and neighbouring cells lie exactly atol apart.      *)
(* Tolerances and scales are exact fractions [num, den]; comparisons are   *)
(* cross-multiplied.                                                       *)
(***************************************************************************)
EXTENDS Integers, Sequences, FiniteSets, TLC

VARIABLES
    heap,           \* object id -> box dimensions [a, b, c] of every live cell object
    cell,           \* quick_a_Cij argument: id of the caller's cell object
    tol,            \* quick_a_Cij argument tol, a fraction
    diverge_scale,  \* quick_a_Cij argument diverge_scale, a fraction
    p_xx, p_yy, p_zz, \* quick_a_Cij arguments: the target pressures
    cell_current,   \* local: id of the cell being evaluated (None when out of scope)
    cell_old,       \* local: id of the previously evaluated cell, or None
    results,        \* local: the dict returned by the latest calc_cij
    converged,      \* local flag
    cycle,          \* the for-loop's index
    pc,             \* "loop" | "reeval" | "returned" | "raised"
    returned,       \* the value quick_a_Cij returned, NoResults before
    raised,         \* the message of the error that left quick_a_Cij, "none" before
    ncalls,         \* number of calc_cij calls made so far
    eval_in,        \* dimensions of the cell handed to the latest calc_cij call
    eval_out,       \* what the latest calc_cij call produced
    eval_run,       \* what the latest calc_cij call measured on the way
    raw,            \* calc_cij: the finite-difference matrix before symmetrization
    cij,            \* calc_cij: the 6x6 matrix the symmetrization loop works on
    passes,         \* number of times the symmetrization loop has run over cij
    input_dict,     \* dislocationmonopole: the dictionary argument
    kwargs,         \* dislocationmonopole: the key renaming
    dm_pc,          \* dislocationmonopole: "call" | "returned" | "raised"
    dm_error,       \* dislocationmonopole: the exception that left the call
    dm_before,      \* input_dict as it was when dislocationmonopole was called
    files,          \* ptd_energy: the working directory, file name -> content
    platform,       \* ptd_energy: whose os.rename is in force, "posix" | "windows"
    steps,          \* ptd_energy: final Step of the perfect and of the defect run
    ptd_pc,         \* ptd_energy: the statement group that runs next
    ptd_runs,       \* ptd_energy: the LAMMPS runs made so far, in order
    ptd_error,      \* ptd_energy: the exception that left the call
    ptd_result      \* ptd_energy: the keys of the returned dictionary

vars == <<heap, cell, tol, diverge_scale, p_xx, p_yy, p_zz, cell_current, cell_old, results,
          converged, cycle, pc, returned, raised, ncalls, eval_in, eval_out,
          eval_run, raw, cij, passes, input_dict, kwargs, dm_pc, dm_error, dm_before,
          files, platform, steps, ptd_pc, ptd_runs, ptd_error, ptd_result>>

refine_vars == <<heap, cell, tol, diverge_scale, p_xx, p_yy, p_zz, cell_current, cell_old, results,
                 converged, cycle, pc, returned, raised, ncalls, eval_in, eval_out,
                 eval_run>>

sym_vars == <<raw, cij, passes>>

dm_vars == <<input_dict, kwargs, dm_pc, dm_error, dm_before>>

ptd_vars == <<files, platform, steps, ptd_pc, ptd_runs, ptd_error, ptd_result>>

-----------------------------------------------------------------------------
(* Bounds and program constants *)

\* Largest half-dimension the modelled evaluator proposes (dimensions 2..2*MaxDim).
MaxDim == 4

\* A plausible slip: a digit of the cycle count is dropped.
CyclesDigitDropped == 100 \div 10

\* for cycle in xrange(100)
MaxCycles == 100

\* numpy.allclose's default atol (1e-8), which the calls at lines 104, 109 and
\* 205 leave in force, in the model's unit of length
ATOL == 2

None == 0

Abs(x) == IF x < 0 THEN -x ELSE x

Dims(x, y, z) == [a |-> x, b |-> y, c |-> z]

Frac(n, d) == [num |-> n, den |-> d]

-----------------------------------------------------------------------------
(* Inputs *)

\* The caller's cell: a cubic one and one with three different edges.
InitCells == {Dims(4, 4, 4), Dims(4, 6, 2)}

\* tol: 0, and a coarse tolerance of one quarter.
Tolerances == {Frac(0, 1), Frac(1, 4)}

\* diverge_scale: the degenerate scale 1, and 2.
Scales == {Frac(1, 1), Frac(2, 1)}

\* Cells the evaluator proposes: the cells with at most one edge off 4, and
\* the non-cubic initial cell.
EvalCells ==
    {Dims(2 * k, 4, 4) : k \in 1..MaxDim}
    \cup {Dims(4, 2 * k, 4) : k \in 1..MaxDim}
    \cup {Dims(4, 4, 2 * k) : k \in 1..MaxDim}
    \cup InitCells

\* Candidate dimensions with a non-positive entry (a negative or overflowing
\* strain denominator in calc_cij).
NonPosCells == {Dims(0, 4, 4), Dims(4, -2, 4), Dims(4, 4, 0)}

\* peatom of the undeformed configuration
Energies == {0, -3}

\* (p_xx, p_yy, p_zz): the default target pressures, and a uniaxial target.
TargetPressures == {<<0, 0, 0>>, <<2, 0, 0>>}

\* (Pxx[0], Pyy[0], Pzz[0]): the pressures LAMMPS measures on the undeformed
\* configuration.
Pressures == {<<0, 0, 0>>, <<2, 0, 0>>}

-----------------------------------------------------------------------------
(* calc_cij: the symmetrization loop *)

\* for i in xrange(6)
NVoigt == 6

Idx == 0..(NVoigt - 1)

ZeroMat == [p \in Idx \X Idx |-> 0]

With(m, i, j, v) == [m EXCEPT ![<<i, j>>] = v]

\* The (i, j) pairs in the order the nested loops visit them: j < i.
RECURSIVE PairsFrom(_, _)
PairsFrom(i, j) ==
    IF i >= NVoigt THEN <<>>
    ELSE IF j >= i THEN PairsFrom(i + 1, 0)
    ELSE <<(<<i, j>>)>> \o PairsFrom(i, j + 1)

LoopPairs == PairsFrom(0, 0)

\* A plausible slip: only the lower entry is assigned.
SymAssignLowerOnly(m, i, j) ==
    [m EXCEPT ![<<i, j>>] = (m[<<i, j>>] + m[<<j, i>>]) \div 2]

\* A plausible slip: the upper entry is averaged from the overwritten lower one.
SymAssignChained(m, i, j) ==
    LET avg == (m[<<i, j>>] + m[<<j, i>>]) \div 2
    IN  [m EXCEPT ![<<i, j>>] = avg, ![<<j, i>>] = (avg + m[<<j, i>>]) \div 2]

\* cij[i,j] = cij[j,i] = (cij[i,j] + cij[j,i]) / 2
SymAssign(m, i, j) ==
    LET avg == (m[<<i, j>>] + m[<<j, i>>]) \div 2
    IN  [m EXCEPT ![<<i, j>>] = avg, ![<<j, i>>] = avg]

RECURSIVE SymLoop(_, _)
SymLoop(m, k) ==
    IF k > Len(LoopPairs) THEN m
    ELSE SymLoop(SymAssign(m, LoopPairs[k][1], LoopPairs[k][2]), k + 1)

\* The whole double loop of lines 199-201, run in place on m.
Symmetrize(m) == SymLoop(m, 1)

\* np.allclose(C.Cij, 0.0)
AllCloseZero(m) == \A p \in Idx \X Idx : Abs(m[p]) <= ATOL

-----------------------------------------------------------------------------
(* calc_cij: one evaluation *)

\* Raw finite-difference matrices of the runs the refinement model draws from:
\* no response at all, a response that cancels under symmetrization, and a
\* regular one.
DiagMat(v) == [p \in Idx \X Idx |-> IF p[1] = p[2] THEN v ELSE 0]

RawZero == ZeroMat

RawAnti == With(With(ZeroMat, 0, 1, 4), 1, 0, -4)

RawRegular == With(DiagMat(8), 0, 1, 4)

RawSamples == {RawZero, RawAnti, RawRegular}

\* lines 199-206: the samples whose symmetrized matrix np.allclose finds zero
ZeroRaws == {r \in RawSamples : AllCloseZero(Symmetrize(r))}

NoDims == Dims(0, 0, 0)

\* What one LAMMPS run and the inversion of C hand to calc_cij: the raw matrix,
\* whether C.Sij raises, the measured pressures (Pxx[0], Pyy[0], Pzz[0]),
\* peatom[0], and the lengths old / (S.s + 1) that the compliance gives under
\* a non-zero effective stress s.
\* A matrix that symmetrizes to zero has no inverse.
Runs ==
    {[raw |-> r, inv_fails |-> TRUE, P |-> <<0, 0, 0>>, strained |-> Dims(4, 4, 4),
      ecoh |-> -3] : r \in {RawZero, RawAnti}}
    \cup {[raw |-> RawRegular, inv_fails |-> TRUE, P |-> <<0, 0, 0>>,
           strained |-> Dims(4, 4, 4), ecoh |-> -3]}
    \cup {[raw |-> RawRegular, inv_fails |-> FALSE, P |-> q, strained |-> n, ecoh |-> e] :
            q \in Pressures, n \in EvalCells \cup NonPosCells, e \in Energies}

\* A plausible slip: the measured pressure enters with the wrong sign.
EffectiveStressSignSlip(run) == <<p_xx + run.P[1], p_yy + run.P[2], p_zz + run.P[3]>>

\* lines 214-220: s_xx, s_yy, s_zz
EffectiveStress(run) == <<p_xx - run.P[1], p_yy - run.P[2], p_zz - run.P[3]>>

\* lines 222-224: old / (S.s + 1); S.s is 0 under zero effective stress.
NewDims(c, run) ==
    IF EffectiveStress(run) = <<0, 0, 0>> THEN c ELSE run.strained

\* The runs that differ in what calc_cij reads: under zero effective stress
\* the strained lengths are not read, and one run stands for all of them.
RunsRead ==
    {run \in Runs : EffectiveStress(run) = <<0, 0, 0>> => run.strained = Dims(4, 4, 4)}

EvalError(msg) == [error |-> msg, ecoh |-> 0, cell_new |-> NoDims]

\* A plausible slip: the test of the new dimensions is left out.
calc_cijNoPositivityTest(c, run) ==
    IF run.raw \in ZeroRaws
    THEN EvalError("Divergence of elastic constants to <= 0")
    ELSE IF run.inv_fails
    THEN EvalError("singular C")
    ELSE [error |-> "none", ecoh |-> run.ecoh, cell_new |-> NewDims(c, run)]

\* A plausible slip: the inversion is tried before the all-zero test.
calc_cijInversionFirst(c, run) ==
    IF run.inv_fails
    THEN EvalError("singular C")
    ELSE IF run.raw \in ZeroRaws
    THEN EvalError("Divergence of elastic constants to <= 0")
    ELSE LET new == NewDims(c, run)
         IN  IF new.a <= 0 \/ new.b <= 0 \/ new.c <= 0
             THEN EvalError("Divergence of box dimensions to <= 0")
             ELSE [error |-> "none", ecoh |-> run.ecoh, cell_new |-> new]

\* calc_cij from the symmetrized matrix on (lines 203-233).
calc_cij(c, run) ==
    IF run.raw \in ZeroRaws
    THEN EvalError("Divergence of elastic constants to <= 0")
    ELSE IF run.inv_fails
    THEN EvalError("singular C")
    ELSE LET new == NewDims(c, run)
         IN  IF new.a <= 0 \/ new.b <= 0 \/ new.c <= 0
             THEN EvalError("Divergence of box dimensions to <= 0")
             ELSE [error |-> "none", ecoh |-> run.ecoh, cell_new |-> new]

EvaluatorErrors == {"Divergence of elastic constants to <= 0", "singular C",
                    "Divergence of box dimensions to <= 0"}

-----------------------------------------------------------------------------
(* quick_a_Cij *)

\* np.allclose(x, y, rtol=t) on the box vectors of two orthorhombic cells:
\* |x - y| <= atol + rtol * |y| for every component (the off-diagonal
\* components are 0 on both sides).
CloseTo(x, y, t) == Abs(x - y) * t.den <= ATOL * t.den + t.num * Abs(y)

AllClose(x, y, t) ==
    /\ CloseTo(x.a, y.a, t)
    /\ CloseTo(x.b, y.b, t)
    /\ CloseTo(x.c, y.c, t)

\* A plausible slip: only the upper limit is tested.
OutOfRangeAboveOnly(x, init, s) == x * s.den > init * s.num

\* A plausible slip: the limits themselves count as out of range.
OutOfRangeInclusive(x, init, s) == x * s.num <= init * s.den \/ x * s.den >= init * s.num

\* x < init / scale or x > init * scale
OutOfRange(x, init, s) == x * s.num < init * s.den \/ x * s.den > init * s.num

\* lines 121-126: the three per-axis tests against the caller's cell
BoxDiverged(new, init, s) ==
    \/ OutOfRange(new.a, init.a, s)
    \/ OutOfRange(new.b, init.b, s)
    \/ OutOfRange(new.c, init.c, s)

\* line 104
TestA(new) == AllClose(new, heap[cell_current], tol)

\* A plausible slip: the second test compares with the current cell again.
TestBAgainstCurrent(new) == cell_old # None /\ AllClose(new, heap[cell_current], tol)

\* line 109
TestB(new) == cell_old # None /\ AllClose(new, heap[cell_old], tol)

\* A plausible slip: the energy test is left out.
DecideNoEnergyTest(new, ecoh) ==
    IF TestA(new) THEN "converged"
    ELSE IF TestB(new) THEN "average"
    ELSE IF BoxDiverged(new, heap[cell], diverge_scale) THEN "Divergence of box dimensions"
    ELSE "continue"

\* A plausible slip: the divergence tests come before the convergence tests.
DecideDivergenceFirst(new, ecoh) ==
    IF BoxDiverged(new, heap[cell], diverge_scale) THEN "Divergence of box dimensions"
    ELSE IF ecoh = 0 THEN "Divergence: cohesive energy is 0"
    ELSE IF TestA(new) THEN "converged"
    ELSE IF TestB(new) THEN "average"
    ELSE "continue"

\* The if / elif chain of lines 104-132.
Decide(new, ecoh) ==
    IF TestA(new) THEN "converged"
    ELSE IF TestB(new) THEN "average"
    ELSE IF BoxDiverged(new, heap[cell], diverge_scale) THEN "Divergence of box dimensions"
    ELSE IF ecoh = 0 THEN "Divergence: cohesive energy is 0"
    ELSE "continue"

\* A plausible slip: b and c are averaged from a.
AverageCopyPaste(x, y) == Dims((x.a + y.a) \div 2, (x.a + y.a) \div 2, (x.a + y.a) \div 2)

\* lines 111-113
Average(x, y) == Dims((x.a + y.a) \div 2, (x.b + y.b) \div 2, (x.c + y.c) \div 2)

NoResults == [call |-> 0, ecoh |-> 0, cell_new |-> None]

\* A plausible slip: a deepcopy is left out, and the new cell is the cell given.
ObjOfCallNoCopy(n) == IF n = 0 THEN cell ELSE cell_current

\* The id of the cell object that the n-th calc_cij call creates by deepcopy
\* (1 is the caller's cell, 2 its deepcopy of line 94).
ObjOfCall(n) == n + 2

Restrict(h, ids) == [o \in (DOMAIN h) \cap ids |-> h[o]]

Extend(h, id, d) == [o \in (DOMAIN h) \cup {id} |-> IF o = id THEN d ELSE h[o]]

\* A plausible slip: the averaged box is set on the previous cell.
AverageIntoOld(h, new) ==
    [h EXCEPT ![cell_old] = Average(new, heap[cell_old])]

\* lines 111-114: cell_current.box_set(...) with the averaged box, in place
AverageInPlace(h, new) ==
    [h EXCEPT ![cell_current] = Average(new, heap[cell_old])]

\* A plausible slip: the error is swallowed and the loop goes on.
RaiseAndRetry(msg) ==
    /\ pc' = "loop"
    /\ raised' = msg
    /\ heap' = Restrict(heap, {cell, cell_current, cell_old})
    /\ UNCHANGED <<returned, cell_current, cell_old, results, converged, cycle>>

\* An exception leaves quick_a_Cij: the locals go out of scope.
Raise(msg) ==
    /\ pc' = "raised"
    /\ raised' = msg
    /\ returned' = NoResults
    /\ heap' = Restrict(heap, {cell})
    /\ cell_current' = None
    /\ cell_old' = None
    /\ results' = NoResults
    /\ UNCHANGED <<converged, cycle>>

\* A plausible slip: the break is missing and the loop goes on.
ReturnWithoutBreak(res, h) ==
    /\ pc' = "loop"
    /\ returned' = res
    /\ raised' = "none"
    /\ converged' = TRUE
    /\ heap' = h
    /\ results' = res
    /\ UNCHANGED <<cell_current, cell_old, cycle>>

\* lines 135-136: return results
Return(res, h) ==
    /\ pc' = "returned"
    /\ returned' = res
    /\ raised' = "none"
    /\ converged' = TRUE
    /\ heap' = Restrict(h, {cell, res.cell_new})
    /\ cell_current' = None
    /\ cell_old' = None
    /\ results' = NoResults
    /\ UNCHANGED cycle

\* What is recorded of a run: whether the symmetrized C is all zero (line
\* 205), whether C.Sij raises (lines 207-210), and Pxx[0], Pyy[0], Pzz[0].
Measured(run) ==
    [zero |-> run.raw \in ZeroRaws, singular |-> run.inv_fails, P |-> run.P]

NoRun == [zero |-> FALSE, singular |-> FALSE, P |-> <<0, 0, 0>>]

\* A plausible slip: the previous cell is not updated.
ContinueKeepsOld(newid, res, h) ==
    /\ cell_current' = newid
    /\ results' = res
    /\ heap' = Restrict(h, {cell, cell_old, newid})
    /\ cycle' = cycle + 1
    /\ pc' = "loop"
    /\ UNCHANGED <<cell_old, converged, returned, raised>>

\* lines 131-132 and 97: the swap, and the next cycle
Continue(newid, res, h) ==
    /\ cell_old' = cell_current
    /\ cell_current' = newid
    /\ results' = res
    /\ heap' = Restrict(h, {cell, cell_current, newid})
    /\ cycle' = cycle + 1
    /\ pc' = "loop"
    /\ UNCHANGED <<converged, returned, raised>>

\* One evaluation by calc_cij of the cell c, observed.
Evaluated(c, run, r) ==
    /\ ncalls' = ncalls + 1
    /\ eval_in' = c
    /\ eval_out' = r
    /\ eval_run' = Measured(run)

\* One pass of the for loop: lines 100-132, and lines 135-138 when it is the last.
Iterate ==
    /\ pc = "loop"
    /\ \E run \in RunsRead :
        LET r == calc_cij(heap[cell_current], run)
            newid == ObjOfCall(ncalls + 1)
            res == [call |-> ncalls + 1, ecoh |-> r.ecoh, cell_new |-> newid]
            h == Extend(heap, newid, r.cell_new)
            d == Decide(r.cell_new, r.ecoh)
        IN  /\ Evaluated(heap[cell_current], run, r)
            /\ IF r.error # "none" THEN Raise(r.error)
               ELSE IF d = "converged" THEN Return(res, h)
               ELSE IF d = "average" THEN
                    /\ heap' = AverageInPlace(Restrict(h, {cell, cell_current, cell_old, newid}),
                                              r.cell_new)
                    /\ results' = res
                    /\ pc' = "reeval"
                    /\ UNCHANGED <<cell_current, cell_old, converged, cycle, returned, raised>>
               ELSE IF d # "continue" THEN Raise(d)
               ELSE IF cycle + 1 = MaxCycles THEN
                    Raise("Failed to converge after 100 cycles")
               ELSE Continue(newid, res, h)
    /\ UNCHANGED <<cell, tol, diverge_scale, p_xx, p_yy, p_zz>>
    /\ UNCHANGED sym_vars
    /\ UNCHANGED dm_vars
    /\ UNCHANGED ptd_vars

\* lines 115-118 and 135-136: the evaluation of the averaged cell, and the return
ReEvaluate ==
    /\ pc = "reeval"
    /\ \E run \in RunsRead :
        LET r == calc_cij(heap[cell_current], run)
            newid == ObjOfCall(ncalls + 1)
            res == [call |-> ncalls + 1, ecoh |-> r.ecoh, cell_new |-> newid]
        IN  /\ Evaluated(heap[cell_current], run, r)
            /\ IF r.error # "none" THEN Raise(r.error)
               ELSE Return(res, Extend(heap, newid, r.cell_new))
    /\ UNCHANGED <<cell, tol, diverge_scale, p_xx, p_yy, p_zz>>
    /\ UNCHANGED sym_vars
    /\ UNCHANGED dm_vars
    /\ UNCHANGED ptd_vars

\* Idle values of the variables the refinement does not use.
SymIdle == raw = <<>> /\ cij = <<>> /\ passes = 0

DmIdle ==
    /\ input_dict = <<>>
    /\ kwargs = <<>>
    /\ dm_pc = "idle"
    /\ dm_error = "none"
    /\ dm_before = <<>>

PtdIdle ==
    /\ files = <<>>
    /\ platform = "none"
    /\ steps = <<>>
    /\ ptd_pc = "idle"
    /\ ptd_runs = <<>>
    /\ ptd_error = "none"
    /\ ptd_result = {}

\* quick_a_Cij has run lines 91-95.
Init ==
    /\ cell = 1
    /\ \E c \in InitCells : heap = (1 :> c) @@ (2 :> c)
    /\ tol \in Tolerances
    /\ diverge_scale \in Scales
    /\ \E q \in TargetPressures : p_xx = q[1] /\ p_yy = q[2] /\ p_zz = q[3]
    /\ cell_current = ObjOfCall(0)
    /\ cell_old = None
    /\ results = NoResults
    /\ converged = FALSE
    /\ cycle = 0
    /\ pc = "loop"
    /\ returned = NoResults
    /\ raised = "none"
    /\ ncalls = 0
    /\ eval_in = NoDims
    /\ eval_out = EvalError("none")
    /\ eval_run = NoRun
    /\ SymIdle
    /\ DmIdle
    /\ PtdIdle

Next == Iterate \/ ReEvaluate

Spec == Init /\ [][Next]_vars

-----------------------------------------------------------------------------
(* The symmetrization loop of calc_cij on its own *)

\* Number of entries of a raw matrix that are set apart from its base.
MaxEntries == 2

\* Number of times the loop is run over the same matrix.
MaxPasses == 2

RawValues == {-4, 8}

\* A dense matrix with no symmetric pair.
RawDense == [p \in Idx \X Idx |-> 4 * (p[1] + 2 * p[2])]

RECURSIVE RawFrom(_)
RawFrom(n) ==
    IF n = 0 THEN {ZeroMat, RawDense}
    ELSE LET prev == RawFrom(n - 1)
         IN  prev \cup {With(m, p[1], p[2], v) : m \in prev, p \in Idx \X Idx, v \in RawValues}

RawMatrices == RawFrom(MaxEntries)

RefineIdle ==
    /\ heap = <<>>
    /\ cell = None
    /\ tol = Frac(0, 1)
    /\ diverge_scale = Frac(1, 1)
    /\ p_xx = 0 /\ p_yy = 0 /\ p_zz = 0
    /\ cell_current = None
    /\ cell_old = None
    /\ results = NoResults
    /\ converged = FALSE
    /\ cycle = 0
    /\ pc = "idle"
    /\ returned = NoResults
    /\ raised = "none"
    /\ ncalls = 0
    /\ eval_in = NoDims
    /\ eval_out = EvalError("none")
    /\ eval_run = NoRun

\* cij holds the raw estimate of lines 188-197.
InitSym ==
    /\ raw \in RawMatrices
    /\ cij = raw
    /\ passes = 0
    /\ RefineIdle
    /\ DmIdle
    /\ PtdIdle

\* lines 199-201, once over cij
SymmetrizePass ==
    /\ passes < MaxPasses
    /\ cij' = Symmetrize(cij)
    /\ passes' = passes + 1
    /\ UNCHANGED raw
    /\ UNCHANGED refine_vars
    /\ UNCHANGED dm_vars
    /\ UNCHANGED ptd_vars

NextSym == SymmetrizePass

SpecSym == InitSym /\ [][NextSym]_vars

-----------------------------------------------------------------------------
(* dislocationmonopole *)

\* lines 79-83
KeyNames == {"dislocation_file", "dislocation_model", "dislocation_content",
             "dislocation_family", "a_uvw", "b_uvw", "c_uvw", "atomshift",
             "dislocation_burgersvector", "dislocation_boundaryshape",
             "dislocation_boundarywidth", "ucell", "burgersvector",
             "boundarywidth"}

\* lines 102-103
CompetingKeys == {"atomshift", "a_uvw", "b_uvw", "c_uvw", "dislocation_burgersvector"}

PyNone == "None"

Absent == "<absent>"

Get(d, k, default) == IF k \in DOMAIN d THEN d[k] ELSE default

Put(d, k, v) == [x \in (DOMAIN d) \cup {k} |-> IF x = k THEN v ELSE d[x]]

\* lines 84-85
Defaulted(kw) == [k \in KeyNames |-> IF k \in DOMAIN kw THEN kw[k] ELSE k]

\* float(): the strings it converts, and what it makes of them
FloatOf == ("3.0" :> "float 3.0") @@ ("5" :> "float 5.0")

\* DM(...).find('dislocation-monopole') finds a record in these
Loadable == {"good.json", "good content"}

\* np.array(s.strip().split(), dtype=float) converts these
VectorStrings == {"1 0 0", "model burgersvector"}

Outcome(d, e) == [dict |-> d, error |-> e]

\* lines 112-117
ExtractFromModel(d, kw) ==
    LET d1 == Put(d, kw["dislocation_family"], "model system-family")
        d2 == Put(d1, kw["a_uvw"], "model a_uvw")
        d3 == Put(d2, kw["b_uvw"], "model b_uvw")
        d4 == Put(d3, kw["c_uvw"], "model c_uvw")
        d5 == Put(d4, kw["atomshift"], "model atomshift")
    IN  Put(d5, kw["dislocation_burgersvector"], "model burgersvector")

\* lines 141-145
SaveTerms(d, kw, model, shape, width, bv, bw) ==
    LET d1 == Put(d, kw["dislocation_model"], model)
        d2 == Put(d1, kw["dislocation_boundaryshape"], shape)
        d3 == Put(d2, kw["dislocation_boundarywidth"], width)
        d4 == Put(d3, kw["burgersvector"], bv)
    IN  Put(d4, kw["boundarywidth"], bw)

\* The assertion of lines 102-106 without the renaming: a plausible slip.
CompetingSuppliedUnrenamed(d, kw) == \E key \in CompetingKeys : key \in DOMAIN d

\* lines 102-106: some assert fails
CompetingSupplied(d, kw) == \E key \in CompetingKeys : kw[key] \in DOMAIN d

\* The whole function: the dictionary it leaves and the exception it raises.
dislocationmonopole(d, kwargs0) ==
    LET kw == Defaulted(kwargs0)
        file0 == Get(d, kw["dislocation_file"], PyNone)
        content == Get(d, kw["dislocation_content"], PyNone)
        shape == Get(d, kw["dislocation_boundaryshape"], "circle")
        widthstr == Get(d, kw["dislocation_boundarywidth"], "3.0")
        ucell == Get(d, kw["ucell"], PyNone)
        file == IF content # PyNone THEN content ELSE file0
    IN  IF widthstr \notin DOMAIN FloatOf THEN Outcome(d, "ValueError")
        ELSE IF file # PyNone /\ CompetingSupplied(d, kw) THEN Outcome(d, "AssertionError")
        ELSE IF file # PyNone /\ file \notin Loadable THEN Outcome(d, "LoadError")
        ELSE
        LET d1 == IF file # PyNone THEN ExtractFromModel(d, kw) ELSE d
            bvkey == kw["dislocation_burgersvector"]
        IN  IF ucell # PyNone /\ bvkey \notin DOMAIN d1 THEN Outcome(d1, "KeyError")
            ELSE IF ucell # PyNone /\ d1[bvkey] \notin VectorStrings
            THEN Outcome(d1, "ValueError")
            ELSE IF file = PyNone THEN Outcome(d1, "UnboundLocalError")
            ELSE Outcome(SaveTerms(d1, kw, "model", shape, FloatOf[widthstr],
                                   IF ucell # PyNone THEN "cartesian burgersvector" ELSE PyNone,
                                   IF ucell # PyNone THEN "ucell a * width" ELSE PyNone),
                         "none")

\* The renamings tried: none, and one that renames three keys.
KwargsChoices ==
    {<<>>,
     ("atomshift" :> "shift") @@ ("dislocation_file" :> "dfile")
         @@ ("dislocation_boundarywidth" :> "bwidth")}

\* What the caller may put under each key that dislocationmonopole reads.
InputOptions ==
    [dislocation_file |-> {Absent, PyNone, "good.json"},
     dislocation_content |-> {Absent, "good content", "bad content"},
     atomshift |-> {Absent, "0 0 0"},
     a_uvw |-> {Absent, "1 0 0"},
     b_uvw |-> {Absent, "0 1 0"},
     c_uvw |-> {Absent, "0 0 1"},
     dislocation_burgersvector |-> {Absent, "1 0 0", "a/2 [110]"},
     dislocation_boundaryshape |-> {Absent, "box"},
     dislocation_boundarywidth |-> {Absent, "5", "wide"},
     ucell |-> {Absent, "ucell"}]

InputKeys == DOMAIN InputOptions

\* The dictionary holding choice[k] under k's (renamed) name, for each k supplied.
DictOf(choice, kw) ==
    LET supplied == {k \in InputKeys : choice[k] # Absent}
    IN  [x \in {kw[k] : k \in supplied} |->
            choice[CHOOSE k \in supplied : kw[k] = x]]

InitDM ==
    /\ kwargs \in KwargsChoices
    /\ \E f \in InputOptions.dislocation_file, n \in InputOptions.dislocation_content,
          s \in InputOptions.atomshift, a \in InputOptions.a_uvw,
          b \in InputOptions.b_uvw, c \in InputOptions.c_uvw,
          v \in InputOptions.dislocation_burgersvector,
          h \in InputOptions.dislocation_boundaryshape,
          w \in InputOptions.dislocation_boundarywidth, u \in InputOptions.ucell,
          stale \in {Absent, "0 0 0"} :
        LET choice == [dislocation_file |-> f, dislocation_content |-> n,
                       atomshift |-> s, a_uvw |-> a, b_uvw |-> b, c_uvw |-> c,
                       dislocation_burgersvector |-> v,
                       dislocation_boundaryshape |-> h,
                       dislocation_boundarywidth |-> w, ucell |-> u]
            d == DictOf(choice, Defaulted(kwargs))
        IN  input_dict = IF stale = Absent THEN d ELSE Put(d, "atomshift", stale)
    /\ dm_before = input_dict
    /\ dm_pc = "call"
    /\ dm_error = "none"
    /\ RefineIdle
    /\ SymIdle
    /\ PtdIdle

\* One call of dislocationmonopole(input_dict, **kwargs).
Dislocationmonopole ==
    /\ dm_pc = "call"
    /\ LET out == dislocationmonopole(input_dict, kwargs)
       IN  /\ input_dict' = out.dict
           /\ dm_error' = out.error
           /\ dm_pc' = IF out.error = "none" THEN "returned" ELSE "raised"
    /\ UNCHANGED <<kwargs, dm_before>>
    /\ UNCHANGED refine_vars
    /\ UNCHANGED sym_vars
    /\ UNCHANGED ptd_vars

NextDM == Dislocationmonopole

SpecDM == InitDM /\ [][NextDM]_vars

-----------------------------------------------------------------------------
(* ptd_energy *)

\* Largest final Step a minimization reports.
MaxStep == 2

Steps == 0 .. MaxStep

\* 'atom.'+str(int(data.finds('Step')[-1]))
AtomFile(n) == "atom." \o ToString(n)

\* What a file holds: the dump a run wrote at a step, a text file written
\* for a run, or a dump left by an earlier calculation.
Dump(run, step) == [kind |-> "dump", run |-> run, step |-> step]
Text(run) == [kind |-> "text", run |-> run, step |-> 0]
Earlier == Dump("earlier", 0)

Exists(fs, name) == name \in DOMAIN fs

\* open(name, 'w') followed by write, and any other creation of a file:
\* the file holds the new content whether it existed or not.
WriteFile(fs, name, content) ==
    [n \in (DOMAIN fs) \cup {name} |-> IF n = name THEN content ELSE fs[n]]

Without(fs, name) == [n \in (DOMAIN fs) \ {name} |-> fs[n]]

Done(fs) == [fs |-> fs, error |-> "none"]
Failed(fs) == [fs |-> fs, error |-> "OSError"]

\* os.rename: raises when the source is missing; onto an existing file it
\* replaces the file on POSIX and raises on Windows.
os_rename(fs, src, dst, plat) ==
    IF ~Exists(fs, src) THEN Failed(fs)
    ELSE IF Exists(fs, dst) /\ plat = "windows" THEN Failed(fs)
    ELSE Done(WriteFile(Without(fs, src), dst, fs[src]))

\* os.remove: raises when the file is missing.
os_remove(fs, name) ==
    IF Exists(fs, name) THEN Done(Without(fs, name)) ELSE Failed(fs)

\* The try / except around the renaming of the final dump: whatever the
\* first os.rename raises, the destination is removed and the renaming is
\* tried once more; an exception of these two calls leaves the function.
MoveDump(fs, last, dst, plat) ==
    LET first == os_rename(fs, AtomFile(last), dst, plat)
        removed == os_remove(fs, dst)
    IN  IF first.error = "none" THEN first
        ELSE IF removed.error # "none" THEN removed
        ELSE os_rename(removed.fs, AtomFile(last), dst, plat)

\* lmp.run of a minimization script: the engine leaves the dump of step 0
\* and the dump of the final step, which are the files lines 79, 109 and
\* 114 name, and possibly dumps of steps in between.
lmp_run(fs, run, last, between) ==
    [n \in (DOMAIN fs) \cup {AtomFile(k) : k \in {0, last} \cup between} |->
        IF \E k \in {0, last} \cup between : n = AtomFile(k)
        THEN Dump(run, CHOOSE k \in {0, last} \cup between : n = AtomFile(k))
        ELSE fs[n]]

Between(last) == SUBSET {k \in Steps : 0 < k /\ k < last}

ResultKeys == {"e_coh", "e_ptd_f"}

\* ptd_energy has been called in a working directory that may hold the
\* dump files of an earlier calculation.
InitPtd ==
    /\ \E had \in SUBSET {"perfect.dump", "ptd.dump"} : files = [n \in had |-> Earlier]
    /\ platform \in {"posix", "windows"}
    /\ steps \in Steps \X Steps
    /\ ptd_pc = "perfect_run"
    /\ ptd_runs = <<>>
    /\ ptd_error = "none"
    /\ ptd_result = {}
    /\ RefineIdle
    /\ SymIdle
    /\ DmIdle

PtdRaise(fs) ==
    /\ files' = fs
    /\ ptd_pc' = "raised"
    /\ ptd_error' = "OSError"
    /\ UNCHANGED <<platform, steps, ptd_runs, ptd_result>>

PtdGoto(fs, label) ==
    /\ files' = fs
    /\ ptd_pc' = label
    /\ UNCHANGED <<platform, steps, ptd_error, ptd_result>>

PtdFrame == UNCHANGED refine_vars /\ UNCHANGED sym_vars /\ UNCHANGED dm_vars

\* Lines 58-75: write perfect.dat and perfect_min.in, run the minimization
\* of the perfect system, read e_coh.
PerfectRun ==
    /\ ptd_pc = "perfect_run"
    /\ \E between \in Between(steps[1]) :
        LET written == WriteFile(WriteFile(files, "perfect.dat", Text("perfect")),
                                 "perfect_min.in", Text("perfect"))
        IN  PtdGoto(lmp_run(written, "perfect", steps[1], between), "perfect_dump")
    /\ ptd_runs' = Append(ptd_runs, "perfect")
    /\ PtdFrame

\* Lines 78-82: the final dump of the perfect system becomes perfect.dump.
PerfectDump ==
    /\ ptd_pc = "perfect_dump"
    /\ LET moved == MoveDump(files, steps[1], "perfect.dump", platform)
       IN  IF moved.error = "none"
           THEN PtdGoto(moved.fs, "defect_run") /\ UNCHANGED ptd_runs
           ELSE PtdRaise(moved.fs)
    /\ PtdFrame

\* Lines 85-105: load perfect.dump, add the defect, write ptd.dat and
\* ptd_min.in, run the minimization of the defect system, compute e_ptd_f.
DefectRun ==
    /\ ptd_pc = "defect_run"
    /\ Exists(files, "perfect.dump")
    /\ \E between \in Between(steps[2]) :
        LET written == WriteFile(WriteFile(files, "ptd.dat", Text("defect")),
                                 "ptd_min.in", Text("defect"))
        IN  PtdGoto(lmp_run(written, "defect", steps[2], between), "defect_dump")
    /\ ptd_runs' = Append(ptd_runs, "defect")
    /\ PtdFrame

\* Lines 108-112: the final dump of the defect system becomes ptd.dump.
DefectDump ==
    /\ ptd_pc = "defect_dump"
    /\ LET moved == MoveDump(files, steps[2], "ptd.dump", platform)
       IN  IF moved.error = "none"
           THEN PtdGoto(moved.fs, "cleanup") /\ UNCHANGED ptd_runs
           ELSE PtdRaise(moved.fs)
    /\ PtdFrame

\* Lines 114-116: remove atom.0 and return the two energies.
Cleanup ==
    /\ ptd_pc = "cleanup"
    /\ LET removed == os_remove(files, "atom.0")
       IN  IF removed.error = "none"
           THEN /\ files' = removed.fs
                /\ ptd_pc' = "returned"
                /\ ptd_result' = ResultKeys
                /\ UNCHANGED <<platform, steps, ptd_runs, ptd_error>>
           ELSE PtdRaise(removed.fs)
    /\ PtdFrame

NextPtd == PerfectRun \/ PerfectDump \/ DefectRun \/ DefectDump \/ Cleanup

SpecPtd == InitPtd /\ [][NextPtd]_vars

-----------------------------------------------------------------------------
(* Vocabulary of the properties of quick_a_Cij *)

\* This step is a pass of the loop whose evaluation returned a result.
LoopEvaluation ==
    /\ pc = "loop"
    /\ ncalls' = ncalls + 1
    /\ eval_out'.error = "none"

\* |x - y| <= atol + tol * |y|, for each of a, b, c
Matches(x, y) ==
    /\ Abs(x.a - y.a) * tol.den <= ATOL * tol.den + tol.num * Abs(y.a)
    /\ Abs(x.b - y.b) * tol.den <= ATOL * tol.den + tol.num * Abs(y.b)
    /\ Abs(x.c - y.c) * tol.den <= ATOL * tol.den + tol.num * Abs(y.c)

\* x lies outside [init / diverge_scale, init * diverge_scale]
Outside(x, init) ==
    \/ x * diverge_scale.num < init * diverge_scale.den
    \/ x * diverge_scale.den > init * diverge_scale.num

AnyOutside(new, init) ==
    Outside(new.a, init.a) \/ Outside(new.b, init.b) \/ Outside(new.c, init.c)

\* m is the elementwise mean of x and y
IsMean(m, x, y) ==
    /\ 2 * m.a = x.a + y.a
    /\ 2 * m.b = x.b + y.b
    /\ 2 * m.c = x.c + y.c

\* In this step the proposed cell matches the cell just evaluated.
MatchesCurrent == Matches(eval_out'.cell_new, heap[cell_current])

\* In this step a previous cell is set and the proposed cell matches it.
MatchesPrevious == cell_old # None /\ Matches(eval_out'.cell_new, heap[cell_old])

DivergenceErrors == {"Divergence of box dimensions", "Divergence: cohesive energy is 0"}

NonConvergence == "Failed to converge after 100 cycles"

\* This step returns the result of the evaluation it made.
ReturnsThisEvaluation ==
    /\ pc' = "returned"
    /\ raised' = "none"
    /\ returned'.call = ncalls'
    /\ returned'.ecoh = eval_out'.ecoh
    /\ heap'[returned'.cell_new] = eval_out'.cell_new

-----------------------------------------------------------------------------
(* C1 *)

\* The first evaluation, of the initial cell A, proposes a cell B that fails the
\* closeness test against A in both directions.
FirstProposesDifferent ==
    /\ LoopEvaluation
    /\ ncalls = 0
    /\ ~Matches(eval_out'.cell_new, heap[cell])
    /\ ~Matches(heap[cell], eval_out'.cell_new)

\* The second evaluation, of B, proposes A again, B failing the closeness test
\* against A in both directions.
SecondProposesInitial ==
    /\ LoopEvaluation
    /\ ncalls = 1
    /\ eval_out'.cell_new = heap[cell]
    /\ ~Matches(heap[cell_current], heap[cell])
    /\ ~Matches(heap[cell], heap[cell_current])

\* The two-cycle is detected at the second evaluation, and the cell set up for
\* the additional evaluation is the mean of A and B.
CycleDetected ==
    /\ pc' = "reeval"
    /\ ncalls' = 2
    /\ IsMean(heap'[cell_current'], heap[cell], heap[cell_current])

\* The additional evaluation is the third call, is made on the averaged cell,
\* and ends the run.
OneMoreEvaluation ==
    /\ ncalls' = ncalls + 1
    /\ eval_in' = heap[cell_current]
    /\ pc' \in {"returned", "raised"}

\* C1: whenever the evaluator alternates between the initial cell A and a cell
\* B that differs from A by more than the tolerance (B within the divergence
\* limits around A and with a cohesive energy other than 0, so that the first
\* pass goes on), the first evaluation is followed by a second, the second
\* detects the two-cycle, and exactly one more evaluation is made, on the
\* elementwise mean of A and B.
C1_OscillationAveragesAandB ==
    [][/\ (/\ FirstProposesDifferent
           /\ ~AnyOutside(eval_out'.cell_new, heap[cell])
           /\ eval_out'.ecoh # 0) => pc' = "loop" /\ heap'[cell_current'] = eval_out'.cell_new
       /\ SecondProposesInitial => CycleDetected
       /\ (pc = "reeval" /\ ncalls = 2) => OneMoreEvaluation]_vars

-----------------------------------------------------------------------------
(* C2 *)

\* C2 as stated: a pass of the loop whose evaluation reports a cohesive energy
\* of exactly 0 ends in a divergence error, whatever the proposed cell matches.
C2_ZeroEnergyAlwaysRejected ==
    [][(LoopEvaluation /\ eval_out'.ecoh = 0)
        => (pc' = "raised" /\ raised' \in DivergenceErrors)]_vars

\* C2 amended: a pass of the loop whose evaluation reports a cohesive energy of
\* exactly 0 ends in a divergence error provided the proposed cell matches
\* neither the cell just evaluated nor the previous cell.
C2_ZeroEnergyRejectedUnlessMatched ==
    [][(LoopEvaluation /\ eval_out'.ecoh = 0 /\ ~MatchesCurrent /\ ~MatchesPrevious)
        => (pc' = "raised" /\ raised' \in DivergenceErrors /\ returned' = NoResults)]_vars

\* The energy test has fired on a cell inside the divergence limits, after the
\* first pass.
C2_Witness ==
    /\ pc = "raised"
    /\ raised = "Divergence: cohesive energy is 0"
    /\ eval_out.ecoh = 0
    /\ ~AnyOutside(eval_out.cell_new, heap[cell])
    /\ ncalls >= 2

-----------------------------------------------------------------------------
(* C3 *)

\* C3 as stated: a pass of the loop whose proposed cell has a, b or c outside
\* the divergence limits ends in the box divergence error.
C3_OutsideAlwaysRejected ==
    [][(LoopEvaluation /\ AnyOutside(eval_out'.cell_new, heap[cell]))
        => (pc' = "raised" /\ raised' = "Divergence of box dimensions")]_vars

\* C3 amended: a pass of the loop whose proposed cell has a, b or c outside the
\* divergence limits ends in the box divergence error, at that pass and also
\* at the last one, provided the proposed cell matches neither the cell just
\* evaluated nor the previous cell.
C3_OutsideRejectedUnlessMatched ==
    [][(LoopEvaluation /\ AnyOutside(eval_out'.cell_new, heap[cell])
            /\ ~MatchesCurrent /\ ~MatchesPrevious)
        => (/\ pc' = "raised"
            /\ raised' = "Divergence of box dimensions"
            /\ returned' = NoResults
            /\ ncalls' = cycle + 1)]_vars

\* The box divergence error was raised for b alone being below its limit,
\* after the first pass.
C3_Witness ==
    /\ pc = "raised"
    /\ raised = "Divergence of box dimensions"
    /\ ncalls >= 2
    /\ ~Outside(eval_out.cell_new.a, heap[cell].a)
    /\ ~Outside(eval_out.cell_new.c, heap[cell].c)
    /\ eval_out.cell_new.b * diverge_scale.num < heap[cell].b * diverge_scale.den

-----------------------------------------------------------------------------
(* C4 *)

\* C4: a pass k of the loop whose proposed cell matches the cell just evaluated
\* returns the result of that evaluation, k evaluations having been made.
C4_SinglePointConvergence ==
    [][(LoopEvaluation /\ MatchesCurrent)
        => (ReturnsThisEvaluation /\ converged' /\ ncalls' = cycle + 1)]_vars

\* The second pass has returned its own result, the proposed cell matching the
\* evaluated one.
C4_Witness ==
    /\ pc = "returned"
    /\ converged
    /\ cycle = 1
    /\ ncalls = 2
    /\ returned.call = 2
    /\ Matches(eval_out.cell_new, eval_in)

-----------------------------------------------------------------------------
(* C5 *)

\* C5: a pass in which neither convergence test holds and no divergence test
\* fires goes on to the next pass until the 100th, which ends in the
\* non-convergence error; that error is raised after exactly 100 evaluations.
C5_NonConvergenceAtCap ==
    /\ [](raised = NonConvergence => (pc = "raised" /\ ncalls = 100 /\ returned = NoResults))
    /\ [][(/\ LoopEvaluation
           /\ ~MatchesCurrent
           /\ ~MatchesPrevious
           /\ ~AnyOutside(eval_out'.cell_new, heap[cell])
           /\ eval_out'.ecoh # 0)
          => IF ncalls' = 100
             THEN pc' = "raised" /\ raised' = NonConvergence
             ELSE pc' = "loop" /\ raised' = "none" /\ ncalls' < 100]_vars

\* The non-convergence error after 100 evaluations.
C5_Witness ==
    /\ pc = "raised"
    /\ raised = NonConvergence
    /\ ncalls = 100
    /\ eval_out.error = "none"

-----------------------------------------------------------------------------
(* C6 *)

\* C6: when a previous cell is set, the proposed cell does not match the cell
\* just evaluated and matches the previous one, the cell set up next is the
\* mean of the proposed and the previous cell; exactly one more evaluation is
\* made, on that cell, and its result is returned whatever it holds.
C6_TwoPointConvergence ==
    [][/\ (LoopEvaluation /\ ~MatchesCurrent /\ MatchesPrevious)
            => (/\ pc' = "reeval"
                /\ ncalls' = cycle + 1
                /\ returned' = NoResults
                /\ IsMean(heap'[cell_current'], eval_out'.cell_new, heap[cell_old]))
       /\ pc = "reeval"
            => (/\ ncalls' = ncalls + 1
                /\ eval_in' = heap[cell_current]
                /\ eval_out'.error = "none" => ReturnsThisEvaluation /\ converged'
                /\ eval_out'.error # "none" => pc' = "raised" /\ raised' = eval_out'.error)]_vars

\* The re-evaluation's result was returned although its energy is 0 and its
\* cell lies outside the divergence limits.
C6_Witness ==
    /\ pc = "returned"
    /\ ncalls = cycle + 2
    /\ returned.call = ncalls
    /\ returned.ecoh = 0
    /\ AnyOutside(heap[returned.cell_new], heap[cell])
    /\ ~Matches(heap[returned.cell_new], eval_in)

-----------------------------------------------------------------------------
(* C7 *)

\* C7: once an error has left quick_a_Cij nothing more happens: no evaluation,
\* no result; and an error of the evaluator is the error that leaves.
C7_ErrorsAreTerminal ==
    /\ [](raised # "none" => (pc = "raised" /\ returned = NoResults))
    /\ [](eval_out.error # "none" => raised = eval_out.error)
    /\ [][raised # "none" => UNCHANGED <<ncalls, raised, returned, eval_in, eval_out>>]_vars

\* An evaluator error raised by the third evaluation.
C7_Witness ==
    /\ pc = "raised"
    /\ raised = "singular C"
    /\ eval_out.error = "singular C"
    /\ ncalls = 3
    /\ returned = NoResults

-----------------------------------------------------------------------------
(* C8 *)

\* C8 as stated: no step changes the box dimensions of an existing cell.
C8_NoCellChangedInPlace ==
    [][\A o \in (DOMAIN heap) \cap (DOMAIN heap') : heap'[o] = heap[o]]_vars

\* C8 amended: the only cell ever changed in place is the current cell in the
\* oscillation branch, which is the cell proposed by the previous evaluation
\* and is set to the averaged dimensions; the caller's cell, the previous cell
\* and the cell proposed by the evaluation that detected the oscillation are
\* never changed, and every evaluation proposes a cell that did not exist before.
C8_OnlyCurrentChangedWhenAveraging ==
    [][/\ \A o \in (DOMAIN heap) \cap (DOMAIN heap') :
            heap'[o] # heap[o]
                => (/\ pc = "loop" /\ pc' = "reeval"
                    /\ o = cell_current
                    /\ o \notin {cell, cell_old, results'.cell_new}
                    /\ o = results.cell_new
                    /\ IsMean(heap'[o], eval_out'.cell_new, heap[cell_old]))
       /\ results'.cell_new # results.cell_new
            => (results'.cell_new = None \/ results'.cell_new \notin DOMAIN heap)
       /\ returned'.cell_new # returned.cell_new => returned'.cell_new \notin DOMAIN heap]_vars

\* The current cell now has dimensions that no evaluation proposed.
C8_Witness ==
    /\ pc = "reeval"
    /\ heap[cell_current] \notin EvalCells
    /\ heap[cell_current].a = 7
    /\ heap[cell_old] \in EvalCells
    /\ heap[results.cell_new] \in EvalCells

-----------------------------------------------------------------------------
(* C9 *)

\* C9: running the symmetrization loop over a matrix it has already been run
\* over leaves every entry as it is.
C9_SymmetrizeIdempotent ==
    [][passes >= 1 => cij' = cij]_vars

\* The loop has run twice over a matrix that the first run changed.
C9_Witness ==
    /\ passes = 2
    /\ cij # raw
    /\ raw[<<1, 0>>] = 8
    /\ raw[<<0, 1>>] = -4

-----------------------------------------------------------------------------
(* C10 *)

\* The caller supplied a dislocation file or dislocation content.
ModelSupplied ==
    LET kw == Defaulted(kwargs)
    IN  \/ Get(dm_before, kw["dislocation_file"], PyNone) # PyNone
        \/ Get(dm_before, kw["dislocation_content"], PyNone) # PyNone

\* The caller supplied one of the competing keys, under its name in force.
CompetingKeyPresent ==
    \E key \in CompetingKeys : Defaulted(kwargs)[key] \in DOMAIN dm_before

\* C10 as stated: with a file or content and a competing key supplied, the call
\* fails with an assertion error and leaves input_dict as it was.
C10_CompetingAlwaysAsserted ==
    (dm_pc # "call" /\ ModelSupplied /\ CompetingKeyPresent)
        => (dm_pc = "raised" /\ dm_error = "AssertionError" /\ input_dict = dm_before)

\* C10 amended: the same, provided the value under the boundary width key, when
\* there is one, is a string that float() converts.
C10_CompetingAssertedIfWidthConverts ==
    (/\ dm_pc # "call"
     /\ ModelSupplied
     /\ CompetingKeyPresent
     /\ Get(dm_before, Defaulted(kwargs)["dislocation_boundarywidth"], "3.0") \in {"3.0", "5"})
        => (dm_pc = "raised" /\ dm_error = "AssertionError" /\ input_dict = dm_before)

\* The assertion failed on the renamed key alone.
C10_Witness ==
    /\ dm_pc = "raised"
    /\ dm_error = "AssertionError"
    /\ kwargs # <<>>
    /\ "shift" \in DOMAIN dm_before
    /\ "atomshift" \notin DOMAIN dm_before
    /\ \A key \in CompetingKeys \ {"atomshift"} : key \notin DOMAIN dm_before
    /\ input_dict = dm_before

-----------------------------------------------------------------------------
(* C11 *)

\* Every component of x differs from that of y by at most tol * |component|.
RelMatches(x, y) ==
    /\ Abs(x.a - y.a) * tol.den <= tol.num * Abs(y.a)
    /\ Abs(x.b - y.b) * tol.den <= tol.num * Abs(y.b)
    /\ Abs(x.c - y.c) * tol.den <= tol.num * Abs(y.c)

\* C11: a pass of the loop ends by test A only if every component of the
\* proposed cell is within tol * |component| of the evaluated cell, and by
\* test B only if it is within tol * |component| of the previous cell; with
\* tol = 0 only identical cells match.
C11_MatchingPurelyRelative ==
    [][/\ (LoopEvaluation /\ pc' = "returned")
            => RelMatches(eval_out'.cell_new, heap[cell_current])
       /\ (LoopEvaluation /\ pc' = "reeval")
            => RelMatches(eval_out'.cell_new, heap[cell_old])]_vars

-----------------------------------------------------------------------------
(* C12 *)

\* C12: before the first evaluation there is no previous cell and the current
\* cell has the dimensions of the caller's cell, so the first pass never takes
\* the oscillation branch; a pass that goes on makes the evaluated cell the
\* previous cell and the proposed cell the current cell; and every pass after
\* the first evaluates the cell that the pass before it proposed.
C12_LoopState ==
    /\ [](ncalls = 0 => (/\ pc = "loop"
                         /\ cell_old = None
                         /\ heap[cell_current] = heap[cell]))
    /\ [][/\ ncalls = 0 => pc' # "reeval"
          /\ (LoopEvaluation /\ pc' = "loop")
                => (/\ cell_old' = cell_current
                    /\ heap'[cell_old'] = eval_in'
                    /\ cell_current' = results'.cell_new
                    /\ heap'[cell_current'] = eval_out'.cell_new
                    /\ cycle' = cycle + 1)
          /\ (pc = "loop" /\ ncalls >= 1)
                => (eval_in' = eval_out.cell_new /\ ncalls = cycle)]_vars

\* The third pass is about to start, on a cell that differs from the previous
\* one, which differs from the caller's.
C12_Witness ==
    /\ pc = "loop"
    /\ cycle = 2
    /\ cell_old # None
    /\ heap[cell_old] # heap[cell_current]
    /\ heap[cell_old] # heap[cell]
    /\ eval_in = heap[cell_old]

-----------------------------------------------------------------------------
(* C13 *)

\* x is one of the limits init / diverge_scale and init * diverge_scale.
AtLimit(x, init) ==
    \/ x * diverge_scale.num = init * diverge_scale.den
    \/ x * diverge_scale.den = init * diverge_scale.num

-----------------------------------------------------------------------------
(* C14 *)

Positive(d) == d.a > 0 /\ d.b > 0 /\ d.c > 0

\* C14: every live cell, every cell handed to calc_cij (the caller's, every
\* proposed cell that was accepted, the averaged cell) and every cell that
\* calc_cij proposed in a result has a, b, c > 0.
C14_PositiveDimensions ==
    /\ \A o \in DOMAIN heap : Positive(heap[o])
    /\ ncalls >= 1 => Positive(eval_in)
    /\ (ncalls >= 1 /\ eval_out.error = "none") => Positive(eval_out.cell_new)
    /\ returned # NoResults => Positive(heap[returned.cell_new])

\* calc_cij refused a non-positive dimension when it was handed the averaged
\* cell, which no evaluation had proposed.
C14_Witness ==
    /\ pc = "raised"
    /\ raised = "Divergence of box dimensions to <= 0"
    /\ ncalls = cycle + 2
    /\ Positive(eval_in)
    /\ eval_in \notin EvalCells

-----------------------------------------------------------------------------
(* C15 *)

\* The latest calc_cij call ended in the error msg: no result, no new cell,
\* and the error is the one that left quick_a_Cij.
RejectedWith(msg) ==
    /\ eval_out = EvalError(msg)
    /\ raised = msg
    /\ returned = NoResults
    /\ DOMAIN heap = {cell}

\* C15: a calc_cij call whose symmetrized matrix is all zero ends in the
\* zero-elastic-response error, also when the matrix cannot be inverted; a
\* call whose matrix is not all zero and cannot be inverted ends in the
\* singular-matrix error; neither produces a result or a new cell.
C15_DegenerateResponseRejected ==
    ncalls >= 1 =>
        /\ eval_run.zero => RejectedWith("Divergence of elastic constants to <= 0")
        /\ (~eval_run.zero /\ eval_run.singular) => RejectedWith("singular C")

\* The second evaluation measured a matrix that is all zero and has no
\* inverse, and reported the zero elastic response.
C15_Witness ==
    /\ ncalls = 2
    /\ eval_run.zero
    /\ eval_run.singular
    /\ eval_out.error = "Divergence of elastic constants to <= 0"
    /\ pc = "raised"

-----------------------------------------------------------------------------
(* C16 *)

\* C16: once the symmetrization loop has run, every entry (i, j) of cij is
\* half the sum of the raw entries (i, j) and (j, i): the off-diagonal pairs
\* are equal and averaged from the raw entries, the diagonal is the raw one.
C16_SymmetrizationResult ==
    passes >= 1 =>
        \A i \in Idx, j \in Idx :
            /\ 2 * cij[<<i, j>>] = raw[<<i, j>>] + raw[<<j, i>>]
            /\ cij[<<i, j>>] = cij[<<j, i>>]

\* The loop has run once over a dense matrix with unequal off-diagonal pairs
\* and a non-zero diagonal.
C16_Witness ==
    /\ passes = 1
    /\ raw[<<1, 1>>] = 12
    /\ raw[<<2, 1>>] # raw[<<1, 2>>]
    /\ raw[<<5, 0>>] # raw[<<0, 5>>]
    /\ cij[<<2, 1>>] = cij[<<1, 2>>]
    /\ cij[<<1, 1>>] = 12

-----------------------------------------------------------------------------
(* C17 *)

\* C17: an evaluation that measures baseline pressures equal to the targets
\* and returns a result proposes the very cell it was given, and quick_a_Cij
\* returns the result of that evaluation: a pass of the loop by test A, as the
\* proposed and the evaluated cell are identical.
C17_FixedPointAtTarget ==
    [][(/\ ncalls' = ncalls + 1
        /\ eval_out'.error = "none"
        /\ eval_run'.P = <<p_xx, p_yy, p_zz>>)
        => (/\ eval_out'.cell_new = eval_in'
            /\ ReturnsThisEvaluation
            /\ converged'
            /\ pc = "loop" => (MatchesCurrent /\ ncalls' = cycle + 1))]_vars

\* With a non-zero target, the third pass measured the target pressures on a
\* cell other than the caller's and returned.
C17_Witness ==
    /\ pc = "returned"
    /\ p_xx = 2
    /\ eval_run.P = <<2, 0, 0>>
    /\ ncalls = 3
    /\ cycle = 2
    /\ eval_out.cell_new = eval_in
    /\ eval_in # heap[cell]

-----------------------------------------------------------------------------
(* C18 *)

Running == pc \in {"loop", "reeval"}

\* C18: quick_a_Cij is never stuck while it runs, every step it takes is one
\* evaluator call, and it makes at most 101 of them: at most 100 in the loop
\* and at most one re-evaluation, which is entered from the loop only and is
\* followed by the return or by an error.
C18_BoundedWork ==
    /\ [](ncalls <= 101 /\ cycle <= 99 /\ ncalls <= cycle + 2)
    /\ [](pc = "loop" => ncalls = cycle)
    /\ [](Running => ENABLED Next)
    /\ [][/\ Running
          /\ ncalls' = ncalls + 1
          /\ pc = "reeval" => ~Running'
          /\ pc' = "reeval" => pc = "loop"]_vars

\* The run ended with its 101st call, the re-evaluation after the 100th pass.
C18_Witness ==
    /\ ncalls = 101
    /\ cycle = 99
    /\ ~Running
    /\ eval_in \notin EvalCells

-----------------------------------------------------------------------------
(* C19 *)

\* C19: on every path the caller's cell object stays the caller's and keeps
\* its a, b, c, and is never the cell being worked on; and the cell handed to
\* calc_cij has, for as long as it is kept after a pass that goes on or
\* returns, the dimensions it was evaluated with.
C19_CallersCellUnchanged ==
    /\ [](cell \in DOMAIN heap /\ heap[cell] \in InitCells)
    /\ [](Running => (cell_current # cell /\ cell_old # cell))
    /\ [][/\ cell' = cell
          /\ heap'[cell'] = heap[cell]
          /\ eval_in' = heap[cell_current]
          /\ (cell_current \in DOMAIN heap' /\ pc' # "reeval")
                => heap'[cell_current] = eval_in']_vars

\* The run returned from the oscillation branch, after a cell other than the
\* caller's was averaged and evaluated, and the caller's cell is as it was.
C19_Witness ==
    /\ pc = "returned"
    /\ ncalls = cycle + 2
    /\ heap[cell] = Dims(4, 6, 2)
    /\ eval_in # heap[cell]
    /\ eval_in \notin EvalCells
    /\ heap[returned.cell_new] # heap[cell]

-----------------------------------------------------------------------------
(* C20 *)

\* The five processed terms are stored under their names in force.
TermsStored ==
    LET kw == Defaulted(kwargs)
    IN  /\ \A k \in {"dislocation_model", "dislocation_boundaryshape",
                      "dislocation_boundarywidth", "burgersvector", "boundarywidth"} :
                kw[k] \in DOMAIN input_dict
        /\ input_dict[kw["dislocation_boundaryshape"]]
                = Get(dm_before, kw["dislocation_boundaryshape"], "circle")
        /\ input_dict[kw["dislocation_boundarywidth"]]
                = FloatOf[Get(dm_before, kw["dislocation_boundarywidth"], "3.0")]

\* C20: a call with neither a dislocation file nor dislocation content (here:
\* with no ucell either, and a boundary width that float() converts) returns
\* normally, with the processed terms stored and burgersvector and
\* boundarywidth None.
C20_CompletesWithoutModel ==
    (/\ dm_pc # "call"
     /\ ~ModelSupplied
     /\ Get(dm_before, Defaulted(kwargs)["ucell"], PyNone) = PyNone
     /\ Get(dm_before, Defaulted(kwargs)["dislocation_boundarywidth"], "3.0")
            \in DOMAIN FloatOf)
        => (/\ dm_pc = "returned"
            /\ dm_error = "none"
            /\ TermsStored
            /\ input_dict[Defaulted(kwargs)["burgersvector"]] = PyNone
            /\ input_dict[Defaulted(kwargs)["boundarywidth"]] = PyNone)

-----------------------------------------------------------------------------
(* C21 *)

\* The runs made so far are the perfect-crystal minimization, then the
\* defect minimization.
PerfectBeforeDefect == ptd_runs \in {<<>>, <<"perfect">>, <<"perfect", "defect">>}

\* The directory ptd_energy is to leave: each dump file holds the final dump
\* of its own run and atom.0 is gone.
DumpsInPlace ==
    /\ Exists(files, "perfect.dump")
    /\ files["perfect.dump"] = Dump("perfect", steps[1])
    /\ Exists(files, "ptd.dump")
    /\ files["ptd.dump"] = Dump("defect", steps[2])
    /\ ~Exists(files, "atom.0")

\* C21: whatever final steps the two minimizations report (0 included) and
\* whether or not perfect.dump and ptd.dump exist beforehand, ptd_energy
\* runs the perfect-crystal minimization before the defect minimization,
\* never leaves with a file-system error, and when it returns, perfect.dump
\* and ptd.dump hold the final dump of their own run, atom.0 is removed and
\* the result has e_coh and e_ptd_f.
C21_FileLifecycle ==
    /\ PerfectBeforeDefect
    /\ ptd_pc # "raised"
    /\ ptd_error = "none"
    /\ ptd_pc = "returned" => DumpsInPlace /\ ptd_result = ResultKeys

====
